---- MODULE Spec2Model ----
(***************************************************************************)
(* Signalling relay of p2p-videocall: the room registry, the Room entity   *)
(* and the per-connection socket.io handlers (join, offer, answer,         *)
(* candidate, leave, disconnect) of the backend server.                    *)
(*                                                                         *)
(* Node runs every handler to completion, so each handler is one action.   *)
(* Room objects live on a heap: the registry (rooms) and every connection  *)
(* closure (room) hold references to them, and a reference can outlive the *)
(* registry entry.  A User's display name and the timestamps are left out: *)
(* no branch of the server reads them.                                     *)
(*                                                                         *)
(* The second half is the browser client (App.tsx): its refs and state,    *)
(* its socket handlers, its two buttons and the continuations of its       *)
(* awaits, connected to the relay by one FIFO channel per direction.       *)
(* SpecCall runs two browsers against the relay, SpecHang follows the      *)
(* buttons further without transport drops, and SpecLive is the call that  *)
(* nobody hangs up, under fair scheduling.                                 *)
(***************************************************************************)
EXTENDS Integers, FiniteSets, Sequences, TLC

\* ---------------------------------------------------------------- bounds
\* number of transport connections ever opened (socket ids 1..MaxSockets)
MaxSockets == 3
\* number of join messages the relay receives in one run
MaxJoins == 3

\* ------------------------------------------------------------- constants
\* Room.maxUsers
maxUsers == 2

\* room ids and user ids are opaque strings the relay only compares for
\* equality; they are numbered here, 0 standing for an unset value
RoomIds == {1, 2}
UserIds == {1, 2, 3}
Payloads == {"sdp"}

Sockets == 1..MaxSockets

\* a Room instance can be referenced by the registry (one per room id) and
\* by each connection closure
NumInstances == Cardinality(RoomIds) + MaxSockets
Instances == 1..NumInstances

\* the value of an unset `let room: Room` / an absent registry entry
NoRoom == 0
\* the value of an unset `let user: User`
NoUser == [id |-> 0, socketId |-> 0]
\* an unallocated heap cell
Blank == [id |-> 0, creator |-> 0, users |-> {}]

\* ------------------------------------------------------- frontend bounds
\* edits of the name and room fields one user makes in a run
MaxEdits == 1
\* clicks on Join and Leave in a run
MaxClicks == 2
\* ICE connection failures reported in a run
MaxIceFailures == 1
\* ICE candidates emitted in a run
MaxCandidates == 1
\* clicks on Join and Leave in a run that follows the buttons alone
MaxHangClicks == 3

\* the browsers
Clients == {1, 2}

\* useState("room1"): the room id field of a freshly mounted App
DefaultRoom == 1

\* uuid(): the user id render g of client c draws; no two renders share one
Uid(c, g) == c * 100 + g

\* no join has started a call
NoCall == [roomId |-> 0, userId |-> 0]

VARIABLES
    client,     \* per browser: the refs and the state of App
    up,         \* per browser: the messages emitted and not yet handled
    down,       \* per browser: the events sent to it and not yet handled
    rooms,      \* const rooms = new Map<string, Room>(): room id -> instance
    heap,       \* the Room objects: instance -> [id, creator, users]
    iceServers, \* let iceServers: "undefined" until the fetch resolves
    connected,  \* the sockets whose connection is open
    nextSock,   \* the id the next connection gets
    room,       \* per connection: let room: Room (an instance or NoRoom)
    user,       \* per connection: let user: User
    sockRooms,  \* per connection: the broadcast groups it has socket.join()ed
    crashed,    \* the process died of an uncaught exception in a handler
    last,       \* the message handled by the last step
    emitted,    \* the emit calls of the last step, in order
    env         \* the clients: joins sent, user ids and room ids used so far,
                \* the sessions whose last join or leave was a leave, and
                \* the clicks, ICE failures and candidates the browsers
                \* have left in this run

vars == <<rooms, heap, iceServers, connected, nextSock, room, user,
          sockRooms, crashed, last, emitted, env>>

\* the relay alone
server == <<rooms, heap, iceServers, connected, nextSock, room, user,
            sockRooms, crashed, last, emitted>>

\* ------------------------------------------------------------ User, Room
\* new User(userId, socketId, name, roomId); roomId is always the id of the
\* room the user is put in
NewUser(userId, socketId) == [id |-> userId, socketId |-> socketId]

\* a faulty constructor that does not record the creator
NewRoomWithoutCreator(id, creator) == [id |-> id, creator |-> 0, users |-> {}]

\* new Room(id, creator)
NewRoom(id, creator) == [id |-> id, creator |-> creator, users |-> {}]

\* a faulty isCreator that takes every user for the creator
isCreatorForAnyone(r, userId) == TRUE

\* Room.isCreator
isCreator(r, userId) == r.creator = userId

\* Room.hasUser: this.users.has(userId)
hasUser(r, userId) == \E u \in r.users : u.id = userId

\* a faulty removeUser that deletes nothing
removeUserKeepsEntry(r, userId) == r

\* Room.removeUser: this.users.delete(userId)
removeUser(r, userId) == [r EXCEPT !.users = {u \in @ : u.id # userId}]

\* Room.addUser: this.users.set(user.id, user); a Map keeps one value per key
addUser(r, u) == [r EXCEPT !.users = {x \in @ : x.id # u.id} \cup {u}]

\* a faulty isEmpty that never reports an empty room
isEmptyNever(r) == FALSE

\* Room.isEmpty
isEmpty(r) == Cardinality(r.users) = 0

\* a faulty isFull that is off by one: this.users.size > this.maxUsers
isFullAboveCapacity(r) == Cardinality(r.users) > maxUsers

\* Room.isFull
isFull(r) == Cardinality(r.users) >= maxUsers

\* --------------------------------------------------------- socket.io side
\* the connections in broadcast group g, given the groups each has joined
Group(sr, g) == {s \in connected : g \in sr[s]}

\* io.to(g): every connection of the group
IoTo(sr, g) == Group(sr, g)

\* a faulty socket.to(g) that does not leave the sender out
SocketToWithSender(sr, s, g) == Group(sr, g)

\* socket.to(g): every connection of the group except the sender
SocketTo(sr, s, g) == Group(sr, g) \ {s}

\* one emit call: the event, the connections it reaches, the user it is
\* tagged with, the payload, and the two extra arguments of `joined`
Emit(ev, rcpts, from, data, creatorFlag, config) ==
    [ev |-> ev, rcpts |-> rcpts, from |-> from, data |-> data,
     isCreator |-> creatorFlag, config |-> config]

\* log(...): io.to(room.id).emit("log", data)
Log(sr, g, text) == Emit("log", IoTo(sr, g), 0, text, FALSE, "none")

\* the message a step handled
Msg(op, s, roomId, userId, config, data) ==
    [op |-> op, sock |-> s, roomId |-> roomId, userId |-> userId,
     config |-> config, data |-> data]

\* ------------------------------------------------------------------ heap
\* instances reachable from the registry or from a live connection closure
Referenced(rs, rm, conn) ==
    {rs[r] : r \in RoomIds} \cup {rm[s] : s \in conn}

\* the cell `new Room` takes: the first one nothing refers to
FreshInst == CHOOSE i \in Instances :
    /\ i \notin Referenced(rooms, room, connected)
    /\ \A j \in Instances :
          j \notin Referenced(rooms, room, connected) => i <= j

\* garbage collection: cells nothing refers to any more are blank
Collect(h, rs, rm, conn) ==
    [i \in Instances |-> IF i \in Referenced(rs, rm, conn) THEN h[i] ELSE Blank]

\* App as mounted: the transport not yet open, every ref at its initial
\* value.  gen counts the renders; leaveEnabled is `!inCall.current` as the
\* last render read it; gathering and haveLocalOffer are the state of the
\* peer connection (a local description is set; it is an offer without an
\* answer); call is the join that started the active call; offered and
\* heard record that, since the last click, an offer was emitted and an
\* offer or answer of the peer was handled.
\* live counts the RTCPeerConnection objects constructed and not closed;
\* remote, restarted and applied are further state of the connection
\* peerConnection.current refers to: the kind of its remote description,
\* whether restartIce() was called on it, the candidates added to it, and
\* whether its ICE connection was reported failed with no offer emitted
\* since; answers counts the answers it took as remote description;
\* remoteVideo is `remoteVideo.current.srcObject` being set; sentSdp
\* records that an offer or an answer was emitted since the last hang-up.
InitClient ==
    [sock |-> 0, gen |-> 0, userName |-> FALSE, roomId |-> DefaultRoom,
     inCall |-> FALSE, leaveEnabled |-> FALSE, joined |-> FALSE,
     isOfferer |-> FALSE, iceServers |-> FALSE, peerConnection |-> FALSE,
     pending |-> <<>>, gathering |-> FALSE, haveLocalOffer |-> FALSE,
     localUser |-> FALSE, remoteUser |-> FALSE, call |-> NoCall,
     offered |-> FALSE, heard |-> FALSE, edits |-> 0,
     live |-> 0, remote |-> "none", restarted |-> FALSE, applied |-> 0,
     failed |-> FALSE, remoteVideo |-> FALSE, sentSdp |-> FALSE,
     answers |-> 0]

\* ------------------------------------------------------------------ Init
\* the server just started and the browsers just mounted, with the clicks,
\* ICE failures and candidates the run may still see
Start(clicks, failures, candidates) ==
    /\ rooms = [r \in RoomIds |-> NoRoom]
    /\ heap = [i \in Instances |-> Blank]
    /\ iceServers = "undefined"
    /\ connected = {}
    /\ nextSock = 1
    /\ room = [s \in Sockets |-> NoRoom]
    /\ user = [s \in Sockets |-> NoUser]
    /\ sockRooms = [s \in Sockets |-> {}]
    /\ crashed = FALSE
    /\ last = Msg("init", 0, 0, 0, FALSE, "none")
    /\ emitted = <<>>
    /\ env = [joins |-> 0, users |-> 0, rooms |-> 0, left |-> {},
              clicks |-> clicks, failures |-> failures,
              candidates |-> candidates]
    /\ client = [c \in Clients |-> InitClient]
    /\ up = [c \in Clients |-> <<>>]
    /\ down = [c \in Clients |-> <<>>]

Init == Start(MaxClicks, MaxIceFailures, MaxCandidates)

\* the fetch of the TURN credentials resolves: iceServers = await response.json()
FetchResolved ==
    /\ ~crashed
    /\ iceServers = "undefined"
    /\ iceServers' = "servers"
    /\ last' = Msg("fetch", 0, 0, 0, FALSE, "none")
    /\ emitted' = <<>>
    /\ UNCHANGED <<rooms, heap, connected, nextSock, room, user, sockRooms,
                   crashed>>

\* io.on("connection"): a new closure with room and user unset
Connect ==
    /\ ~crashed
    /\ nextSock <= MaxSockets
    /\ connected' = connected \cup {nextSock}
    /\ nextSock' = nextSock + 1
    /\ last' = Msg("connect", nextSock, 0, 0, FALSE, "none")
    /\ emitted' = <<>>
    /\ UNCHANGED <<rooms, heap, iceServers, room, user, sockRooms, crashed>>

\* a faulty last argument of `joined` that names the servers whether or not
\* the fetch has delivered them
ConfigWithoutFetch(config, servers) == IF config THEN "servers" ELSE "null"

\* the last argument of `joined`: config ? iceServers : null
Config(config, servers) == IF config THEN servers ELSE "null"

\* socket.on("join", ({ roomId, userId, username, config }) => ...)
\* user.serialize() and room.serialize() only read the two objects; what
\* the `joined` reply says about them is the user id it is tagged with
Join(s, roomId, userId, config) ==
    LET has == rooms[roomId] # NoRoom
        inst == IF has THEN rooms[roomId] ELSE FreshInst
        rejoin == has /\ hasUser(heap[inst], userId)
        \* lines 79-89: look the room up and evict a stale entry, or create it
        rooms1 == IF has THEN rooms ELSE [rooms EXCEPT ![roomId] = inst]
        heap1 == IF has
                 THEN IF rejoin
                      THEN [heap EXCEPT ![inst] = removeUser(@, userId)]
                      ELSE heap
                 ELSE [heap EXCEPT ![inst] = NewRoom(roomId, userId)]
        log1 == IF rejoin THEN <<Log(sockRooms, roomId, "Rejoin")>>
                ELSE IF ~has THEN <<Log(sockRooms, roomId, "Room created")>>
                ELSE <<>>
        room1 == [room EXCEPT ![s] = inst]
        \* lines 96-99
        u == NewUser(userId, s)
        heap2 == [heap1 EXCEPT ![inst] = addUser(@, u)]
        sr2 == [sockRooms EXCEPT ![s] = @ \cup {heap1[inst].id}]
    IN
    /\ ~crashed
    /\ s \in connected
    /\ last' = Msg("join", s, roomId, userId, config, "none")
    /\ room' = room1
    /\ rooms' = rooms1
    /\ UNCHANGED <<iceServers, connected, nextSock, crashed>>
    /\ IF isFull(heap1[inst])
       THEN \* lines 91-94: only a log, then return
            /\ heap' = Collect(heap1, rooms1, room1, connected)
            /\ emitted' = log1 \o <<Log(sockRooms, heap1[inst].id, "Room is full")>>
            /\ UNCHANGED <<user, sockRooms>>
       ELSE \* lines 96-105
            /\ heap' = Collect(heap2, rooms1, room1, connected)
            /\ user' = [user EXCEPT ![s] = u]
            /\ sockRooms' = sr2
            /\ emitted' =
                 log1
                 \o <<Log(sr2, heap2[inst].id, "User joined"),
                      Emit("joined", {s}, userId, "none",
                           isCreator(heap2[inst], userId),
                           Config(config, iceServers))>>
                 \o (IF isFull(heap2[inst])
                     THEN <<Emit("ready", SocketTo(sr2, s, heap2[inst].id),
                                 0, "none", FALSE, "none")>>
                     ELSE <<>>)

\* a handler threw: nothing catches it, so the process dies and its memory
\* (registry, rooms, connections) is gone
Throw(m) ==
    /\ crashed' = TRUE
    /\ last' = m
    /\ emitted' = <<>>
    /\ rooms' = [r \in RoomIds |-> NoRoom]
    /\ heap' = [i \in Instances |-> Blank]
    /\ connected' = {}
    /\ room' = [s \in Sockets |-> NoRoom]
    /\ user' = [s \in Sockets |-> NoUser]
    /\ sockRooms' = [s \in Sockets |-> {}]
    /\ UNCHANGED <<iceServers, nextSock>>

\* the fetch of the TURN credentials fails (the request rejects, or the
\* body is not JSON): the promise chain of lines 30-33 has no catch, and
\* Node ends the process on an unhandled rejection
FetchRejected ==
    /\ ~crashed
    /\ iceServers = "undefined"
    /\ Throw(Msg("fetch failed", 0, 0, 0, FALSE, "none"))

\* reading room.id or user.name throws when the closure variable is unset
Unbound(s) == room[s] = NoRoom \/ user[s] = NoUser

\* socket.on("offer" | "answer", (sdp) => ...): log, then
\* socket.to(room.id).emit(kind, user, sdp)
Relay(kind, s, data) ==
    /\ ~crashed
    /\ s \in connected
    /\ IF Unbound(s)
       THEN Throw(Msg(kind, s, 0, 0, FALSE, data))
       ELSE /\ last' = Msg(kind, s, 0, 0, FALSE, data)
            /\ emitted' =
                 <<Log(sockRooms, heap[room[s]].id, kind),
                   Emit(kind, SocketTo(sockRooms, s, heap[room[s]].id),
                        user[s].id, data, FALSE, "none")>>
            /\ UNCHANGED <<rooms, heap, iceServers, connected, nextSock, room,
                           user, sockRooms, crashed>>

Offer(s, data) == Relay("offer", s, data)

Answer(s, data) == Relay("answer", s, data)

\* socket.on("candidate", (candidate) => ...): log, then
\* socket.to(room.id).emit("candidate", candidate), without the user
Candidate(s, data) ==
    /\ ~crashed
    /\ s \in connected
    /\ IF Unbound(s)
       THEN Throw(Msg("candidate", s, 0, 0, FALSE, data))
       ELSE /\ last' = Msg("candidate", s, 0, 0, FALSE, data)
            /\ emitted' =
                 <<Log(sockRooms, heap[room[s]].id, "candidate"),
                   Emit("candidate", SocketTo(sockRooms, s, heap[room[s]].id),
                        0, data, FALSE, "none")>>
            /\ UNCHANGED <<rooms, heap, iceServers, connected, nextSock, room,
                           user, sockRooms, crashed>>

\* socket.on("leave", () => ...)
Leave(s) ==
    LET inst == room[s]
        id == heap[inst].id
        heap1 == [heap EXCEPT ![inst] = removeUser(@, user[s].id)]
        empty == isEmpty(heap1[inst])
        \* rooms.delete(room.id): by id, whichever instance is stored there
        rooms1 == IF empty THEN [rooms EXCEPT ![id] = NoRoom] ELSE rooms
    IN
    /\ ~crashed
    /\ s \in connected
    /\ IF Unbound(s)
       THEN \* line 159 throws before the `if (!room) return` of line 160
            Throw(Msg("leave", s, 0, 0, FALSE, "none"))
       ELSE /\ last' = Msg("leave", s, 0, 0, FALSE, "none")
            /\ rooms' = rooms1
            /\ heap' = Collect(heap1, rooms1, room, connected)
            /\ emitted' =
                 <<Log(sockRooms, id, "User left"),
                   Emit("leave", SocketTo(sockRooms, s, id), user[s].id,
                        "none", FALSE, "none")>>
                 \o (IF empty THEN <<Log(sockRooms, id, "Empty room")>> ELSE <<>>)
            /\ UNCHANGED <<iceServers, connected, nextSock, room, user,
                           sockRooms, crashed>>

\* socket.on("disconnect"): only a console.log; socket.io itself takes the
\* connection out of its broadcast groups, and the closure is garbage
Disconnect(s) ==
    /\ ~crashed
    /\ s \in connected
    /\ connected' = connected \ {s}
    /\ sockRooms' = [sockRooms EXCEPT ![s] = {}]
    /\ room' = [room EXCEPT ![s] = NoRoom]
    /\ user' = [user EXCEPT ![s] = NoUser]
    /\ heap' = Collect(heap, rooms, room', connected')
    /\ last' = Msg("disconnect", s, 0, 0, FALSE, "none")
    /\ emitted' = <<>>
    /\ UNCHANGED <<rooms, iceServers, nextSock, crashed>>

\* ----------------------------------------------------------- the clients
\* A client may send any message on any open connection.  Ids are opaque,
\* so a run names new user ids and new room ids in increasing order, and it
\* sends at most MaxJoins joins.
SendJoin(s, roomId, userId, config) ==
    /\ env.joins < MaxJoins
    /\ userId <= env.users + 1
    /\ roomId <= env.rooms + 1
    /\ env' = [env EXCEPT
                 !.joins = @ + 1,
                 !.users = IF userId > @ THEN userId ELSE @,
                 !.rooms = IF roomId > @ THEN roomId ELSE @,
                 !.left = @ \ {s}]
    /\ Join(s, roomId, userId, config)

\* a client sends leave; the session has left once the handler completed
SendLeave(s) ==
    /\ Leave(s)
    /\ env' = [env EXCEPT !.left = IF crashed' THEN {} ELSE @ \cup {s}]

\* a client's transport closes, and its session with it
Close(s) ==
    /\ Disconnect(s)
    /\ env' = [env EXCEPT !.left = @ \ {s}]

\* the relay's handlers under every client behaviour, while the credential
\* fetch is pending
Next ==
    \/ Connect /\ UNCHANGED <<env, client, up, down>>
    \/ \E s \in Sockets, r \in RoomIds, u \in UserIds, c \in BOOLEAN :
          SendJoin(s, r, u, c) /\ UNCHANGED <<client, up, down>>
    \/ \E s \in Sockets, d \in Payloads :
          Offer(s, d) /\ UNCHANGED <<env, client, up, down>>
    \/ \E s \in Sockets, d \in Payloads :
          Answer(s, d) /\ UNCHANGED <<env, client, up, down>>
    \/ \E s \in Sockets, d \in Payloads :
          Candidate(s, d) /\ UNCHANGED <<env, client, up, down>>
    \/ \E s \in Sockets : SendLeave(s) /\ UNCHANGED <<client, up, down>>
    \/ \E s \in Sockets : Close(s) /\ UNCHANGED <<client, up, down>>

Spec == Init /\ [][Next]_vars

\* the same, with the credential fetch resolving at any moment
NextFetch ==
    \/ Next
    \/ FetchResolved /\ UNCHANGED <<env, client, up, down>>
    \/ FetchRejected /\ UNCHANGED <<env, client, up, down>>

SpecFetch == Init /\ [][NextFetch]_vars

\* ============================================================== frontend
\* a message a browser emits to the relay
UpMsg(op, roomId, userId, config, data) ==
    [op |-> op, roomId |-> roomId, userId |-> userId, config |-> config,
     data |-> data]

\* a state setter changed the state: App renders again, which draws a new
\* userId and reads inCall.current for the Leave button
Render(cl) == [cl EXCEPT !.gen = @ + 1, !.leaveEnabled = cl.inCall]

\* a faulty setupPeerConnection that drops the current connection without
\* closing it
setupPeerConnectionNoClose(cl) ==
    [cl EXCEPT !.peerConnection = cl.iceServers, !.pending = <<>>,
               !.gathering = FALSE, !.haveLocalOffer = FALSE,
               !.live = @ + (IF cl.iceServers THEN 1 ELSE 0),
               !.remote = "none", !.restarted = FALSE, !.applied = 0,
               !.failed = FALSE, !.answers = 0]

\* setupPeerConnection: close the current connection, then throw without
\* ICE servers or open a new one; what was awaited on the old one is dropped
setupPeerConnection(cl) ==
    [cl EXCEPT !.peerConnection = cl.iceServers, !.pending = <<>>,
               !.gathering = FALSE, !.haveLocalOffer = FALSE,
               !.live = (IF cl.peerConnection THEN @ - 1 ELSE @)
                          + (IF cl.iceServers THEN 1 ELSE 0),
               !.remote = "none", !.restarted = FALSE, !.applied = 0,
               !.failed = FALSE, !.answers = 0]

\* sendOffer up to its await: throws without a peer connection
sendOffer(cl) ==
    IF cl.peerConnection THEN [cl EXCEPT !.pending = Append(@, "offer")]
    ELSE cl

\* sendAnswer up to its await: throws without a peer connection, else
\* setRemoteDescription(offer); the tracks of a remote description are
\* taken to arrive at once (ontrack sets remoteVideo.current.srcObject)
sendAnswer(cl) ==
    IF cl.peerConnection
    THEN [cl EXCEPT !.pending = Append(@, "answer"), !.remote = "offer",
                    !.remoteVideo = TRUE]
    ELSE cl

\* socket.on("joined")
OnJoined(cl, m) ==
    Render([cl EXCEPT !.localUser = TRUE, !.isOfferer = m.isCreator,
                      !.iceServers = @ \/ m.config = "servers",
                      !.joined = TRUE])

\* socket.on("ready")
OnReady(cl) ==
    IF cl.joined
    THEN sendOffer(IF cl.peerConnection THEN cl ELSE setupPeerConnection(cl))
    ELSE cl

\* a faulty offer handler that keeps a connection it already holds
OnOfferKeepsHandle(cl) ==
    Render([sendAnswer(IF cl.peerConnection THEN cl
                       ELSE setupPeerConnection(cl))
              EXCEPT !.remoteUser = TRUE])

\* socket.on("offer")
OnOffer(cl) ==
    Render([sendAnswer(setupPeerConnection(cl)) EXCEPT !.remoteUser = TRUE])

\* a faulty answer handler whose connection takes every answer
OnAnswerInAnyState(cl) ==
    IF cl.peerConnection
    THEN Render([cl EXCEPT !.remoteUser = TRUE, !.haveLocalOffer = FALSE,
                           !.remote = "answer",
                           !.answers = @ + 1,
                           !.remoteVideo = TRUE])
    ELSE cl

\* socket.on("answer"): throws without a peer connection; the connection
\* takes the answer as its remote description when it has a local offer
\* that waits for one, and rejects it otherwise
OnAnswer(cl) ==
    IF cl.peerConnection
    THEN Render([cl EXCEPT !.remoteUser = TRUE, !.haveLocalOffer = FALSE,
                           !.remote = IF cl.haveLocalOffer THEN "answer"
                                      ELSE @,
                           !.answers = IF cl.haveLocalOffer THEN @ + 1
                                       ELSE @,
                           !.remoteVideo = @ \/ cl.haveLocalOffer])
    ELSE cl

\* a faulty candidate handler that adds the candidate without looking
\* whether there is a connection
OnCandidateUnguarded(cl) == [cl EXCEPT !.applied = @ + 1]

\* socket.on("candidate"): peerConnection.current?.addIceCandidate(...)
OnCandidate(cl) ==
    IF cl.peerConnection THEN [cl EXCEPT !.applied = @ + 1] ELSE cl

\* socket.on("leave"): setRemoteUser(null), remoteVideo cleared
OnLeave(cl) ==
    IF cl.remoteUser
    THEN Render([cl EXCEPT !.remoteUser = FALSE, !.remoteVideo = FALSE])
    ELSE [cl EXCEPT !.remoteVideo = FALSE]

\* oniceconnectionstatechange with the state failed, disconnected or
\* closed: the side whose isOfferer is set calls restartIce() where the
\* signaling state allows it and the call does not throw (canRestart),
\* and sendOffer() otherwise; the other side only logs.  restartIce()
\* makes negotiationneeded fire, which is only logged (line 356).
OnIceFailure(cl, canRestart) ==
    LET f == [cl EXCEPT !.failed = TRUE] IN
    IF ~cl.isOfferer THEN f
    ELSE IF canRestart THEN [f EXCEPT !.restarted = TRUE]
    ELSE sendOffer(f)

\* the events of the relay's last step that reach browser d
Delivered(d) ==
    LET es == SelectSeq(emitted', LAMBDA e :
                  e.ev # "log" /\ client[d].sock \in e.rcpts)
    IN [i \in 1..Len(es) |->
           [ev |-> es[i].ev, from |-> es[i].from, data |-> es[i].data,
            isCreator |-> es[i].isCreator, config |-> es[i].config]]

\* the transport opens: the relay gets a connection; socket.io sends what
\* was emitted meanwhile, then socket.on("connect") rejoins if in a call,
\* with the roomId and userId of the render the effect was set up in.
\* The browsers are alike: the one that opens first is called 1.
Open(c) ==
    /\ client[c].sock = 0
    /\ nextSock = 1 => c = 1
    /\ Connect
    /\ client' = [client EXCEPT ![c].sock = nextSock]
    /\ up' = [up EXCEPT ![c] =
                 IF client[c].inCall
                 THEN Append(@, UpMsg("join", DefaultRoom, Uid(c, 0), TRUE,
                                      "none"))
                 ELSE @]
    /\ UNCHANGED <<down, env>>

\* the transport drops: what was in flight is lost. reconnection is on
\* (line 95), so a drop is taken only while a further connection fits
\* MaxSockets.
Drop(c) ==
    /\ client[c].sock # 0
    /\ nextSock <= MaxSockets
    /\ Disconnect(client[c].sock)
    /\ client' = [client EXCEPT ![c].sock = 0]
    /\ up' = [up EXCEPT ![c] = <<>>]
    /\ down' = [down EXCEPT ![c] = <<>>]
    /\ UNCHANGED env

\* the user types in the name or the room field
Edit(c, r) ==
    /\ ~crashed
    /\ client[c].edits < MaxEdits
    /\ client' = [client EXCEPT ![c] =
                     Render([@ EXCEPT !.userName = TRUE, !.roomId = r,
                                      !.edits = @ + 1])]
    /\ UNCHANGED <<vars, up, down>>

\* handleJoin (the Join button is disabled without a name); the local
\* stream is taken to start at once
handleJoin(c) ==
    LET cl == client[c]
        join == UpMsg("join", cl.roomId, Uid(c, cl.gen), ~cl.iceServers, "none")
    IN
    /\ ~crashed
    /\ cl.userName
    /\ env.clicks > 0
    /\ env' = [env EXCEPT !.clicks = @ - 1]
    /\ up' = [up EXCEPT ![c] =
                 @ \o (IF cl.joined
                       THEN <<UpMsg("leave", 0, 0, FALSE, "none")>>
                       ELSE <<>>)
                   \o <<join>>]
    /\ client' = [client EXCEPT ![c] =
                     [cl EXCEPT !.inCall = TRUE,
                                !.call = [roomId |-> join.roomId,
                                          userId |-> join.userId],
                                !.offered = FALSE, !.heard = FALSE]]
    /\ UNCHANGED <<server, down>>

\* a faulty hang-up that forgets the connection without closing it and
\* leaves the remote video in place
HangUpKeepsHandle(cl) ==
    [cl EXCEPT !.inCall = FALSE, !.remoteUser = FALSE,
               !.localUser = FALSE, !.joined = FALSE,
               !.peerConnection = FALSE, !.pending = <<>>,
               !.gathering = FALSE, !.haveLocalOffer = FALSE,
               !.call = NoCall, !.offered = FALSE, !.heard = FALSE,
               !.remote = "none", !.restarted = FALSE,
               !.applied = 0, !.failed = FALSE, !.sentSdp = FALSE,
               !.answers = 0]

\* what handleHangUp does to the refs and the state, before the render
HangUp(cl) ==
    [cl EXCEPT !.inCall = FALSE, !.remoteUser = FALSE,
               !.localUser = FALSE, !.joined = FALSE,
               !.peerConnection = FALSE, !.pending = <<>>,
               !.gathering = FALSE, !.haveLocalOffer = FALSE,
               !.call = NoCall, !.offered = FALSE, !.heard = FALSE,
               !.live = IF cl.peerConnection THEN @ - 1 ELSE @,
               !.remote = "none", !.restarted = FALSE,
               !.applied = 0, !.failed = FALSE,
               !.remoteVideo = FALSE, !.sentSdp = FALSE, !.answers = 0]

\* handleHangUp (the Leave button is disabled={!inCall.current})
handleHangUp(c) ==
    LET cl == client[c]
        cl1 == HangUp(cl)
    IN
    /\ ~crashed
    /\ cl.leaveEnabled
    /\ env.clicks > 0
    /\ env' = [env EXCEPT !.clicks = @ - 1]
    /\ up' = [up EXCEPT ![c] = Append(@, UpMsg("leave", 0, 0, FALSE, "none"))]
    /\ client' = [client EXCEPT ![c] =
                     IF cl.remoteUser \/ cl.localUser THEN Render(cl1)
                     ELSE cl1]
    /\ UNCHANGED <<server, down>>

\* the continuation of the oldest await createOffer() / createAnswer():
\* setLocalDescription, then socket.emit
Resolve(c) ==
    LET cl == client[c] IN
    /\ ~crashed
    /\ cl.pending # <<>>
    /\ up' = [up EXCEPT ![c] =
                 Append(@, UpMsg(Head(cl.pending), 0, 0, FALSE, "sdp"))]
    /\ client' = [client EXCEPT ![c] =
                     [cl EXCEPT !.pending = Tail(@),
                                !.gathering = TRUE,
                                !.haveLocalOffer = (Head(cl.pending) = "offer"),
                                !.offered = @ \/ Head(cl.pending) = "offer",
                                !.failed = @ /\ Head(cl.pending) # "offer",
                                !.sentSdp = TRUE]]
    /\ UNCHANGED <<vars, down>>

\* onicecandidate: a candidate of the local description is emitted
onicecandidate(c) ==
    LET cl == client[c] IN
    /\ ~crashed
    /\ cl.peerConnection
    /\ cl.gathering
    /\ env.candidates > 0
    /\ env' = [env EXCEPT !.candidates = @ - 1]
    /\ up' = [up EXCEPT ![c] =
                 Append(@, UpMsg("candidate", 0, 0, FALSE, "sdp"))]
    /\ UNCHANGED <<server, client, down>>

\* the ICE connection of an established call (both descriptions are set)
\* is reported failed, disconnected or closed
oniceconnectionstatechange(c) ==
    LET cl == client[c] IN
    /\ ~crashed
    /\ cl.peerConnection
    /\ cl.gathering
    /\ cl.remote # "none"
    /\ env.failures > 0
    /\ env' = [env EXCEPT !.failures = @ - 1]
    /\ \E canRestart \in BOOLEAN :
          client' = [client EXCEPT ![c] = OnIceFailure(cl, canRestart)]
    /\ UNCHANGED <<server, up, down>>

\* the browser handles the next event the relay sent it
Receive(c) ==
    LET cl == client[c]
        m == Head(down[c])
    IN
    /\ ~crashed
    /\ down[c] # <<>>
    /\ down' = [down EXCEPT ![c] = Tail(@)]
    /\ client' = [client EXCEPT ![c] =
                     CASE m.ev = "joined" -> OnJoined(cl, m)
                       [] m.ev = "ready" -> OnReady(cl)
                       [] m.ev = "offer" -> [OnOffer(cl) EXCEPT !.heard = TRUE]
                       [] m.ev = "answer" -> [OnAnswer(cl) EXCEPT !.heard = TRUE]
                       [] m.ev = "leave" -> OnLeave(cl)
                       [] m.ev = "candidate" -> OnCandidate(cl)
                       [] OTHER -> cl]
    /\ UNCHANGED <<vars, up>>

\* the relay handles the next message of browser c
Handle(c) ==
    LET s == client[c].sock
        m == Head(up[c])
    IN
    /\ s # 0
    /\ up[c] # <<>>
    /\ CASE m.op = "join" -> Join(s, m.roomId, m.userId, m.config)
         [] m.op = "offer" -> Offer(s, m.data)
         [] m.op = "answer" -> Answer(s, m.data)
         [] m.op = "candidate" -> Candidate(s, m.data)
         [] m.op = "leave" -> Leave(s)
    /\ up' = [up EXCEPT ![c] = Tail(@)]
    /\ down' = [d \in Clients |-> down[d] \o Delivered(d)]
    /\ UNCHANGED <<client, env>>

\* two browsers and the relay
NextCall ==
    \/ \E c \in Clients : Open(c)
    \/ \E c \in Clients : Drop(c)
    \/ \E c \in Clients, r \in RoomIds : Edit(c, r)
    \/ \E c \in Clients : handleJoin(c)
    \/ \E c \in Clients : handleHangUp(c)
    \/ \E c \in Clients : Resolve(c)
    \/ \E c \in Clients : onicecandidate(c)
    \/ \E c \in Clients : oniceconnectionstatechange(c)
    \/ \E c \in Clients : Receive(c)
    \/ \E c \in Clients : Handle(c)
    \/ FetchResolved /\ UNCHANGED <<env, client, up, down>>
    \/ FetchRejected /\ UNCHANGED <<env, client, up, down>>

callvars == <<vars, client, up, down>>

SpecCall == Init /\ [][NextCall]_callvars

\* the buttons alone: no transport drop, no ICE event, one click more
InitHang == Start(MaxHangClicks, 0, 0)

NextHang ==
    \/ \E c \in Clients : Open(c)
    \/ \E c \in Clients, r \in RoomIds : Edit(c, r)
    \/ \E c \in Clients : handleJoin(c)
    \/ \E c \in Clients : handleHangUp(c)
    \/ \E c \in Clients : Resolve(c)
    \/ \E c \in Clients : Receive(c)
    \/ \E c \in Clients : Handle(c)
    \/ FetchResolved /\ UNCHANGED <<env, client, up, down>>

SpecHang == InitHang /\ [][NextHang]_callvars

\* a call that nobody hangs up, under fair scheduling: the relay handles
\* every message it was sent, a browser handles every event it was sent,
\* an awaited createOffer() / createAnswer() settles, a transport that is
\* down comes up again (reconnection: true), and the credential fetch
\* resolves
InitLive == Start(MaxClicks, MaxIceFailures, 0)

NextLive ==
    \/ \E c \in Clients : Open(c)
    \/ \E c \in Clients : Drop(c)
    \/ \E c \in Clients, r \in RoomIds : Edit(c, r)
    \/ \E c \in Clients : handleJoin(c)
    \/ \E c \in Clients : Resolve(c)
    \/ \E c \in Clients : oniceconnectionstatechange(c)
    \/ \E c \in Clients : Receive(c)
    \/ \E c \in Clients : Handle(c)
    \/ FetchResolved /\ UNCHANGED <<env, client, up, down>>

FairLive ==
    /\ \A c \in Clients :
          /\ WF_callvars(Open(c))
          /\ WF_callvars(Handle(c))
          /\ WF_callvars(Receive(c))
          /\ WF_callvars(Resolve(c))
    /\ WF_callvars(FetchResolved /\ UNCHANGED <<env, client, up, down>>)

SpecLive == InitLive /\ [][NextLive]_callvars /\ FairLive
\* ===================================================== properties: helpers
\* the Room stored under id r (read only where rs[r] # NoRoom)
Stored(rs, h, r) == h[rs[r]]

\* the user ids of a set of User entries
Ids(us) == {u.id : u \in us}

\* the positions in a sequence of emit calls that emit event ev
Of(em, ev) == {i \in DOMAIN em : em[i].ev = ev}

\* the positions of the log lines with the given text
Logged(em, text) == {i \in Of(em, "log") : em[i].data = text}

\* connection s is the connection of a member of the room stored under r,
\* and that member is the user the session of s is bound to
MemberSession(s, r) ==
    /\ rooms[r] # NoRoom
    /\ user[s] # NoUser
    /\ user[s] \in Stored(rooms, heap, r).users

\* the room stored under r is at capacity and does not hold user id u
FullWithout(r, u) ==
    /\ rooms[r] # NoRoom
    /\ Cardinality(Stored(rooms, heap, r).users) = maxUsers
    /\ u \notin Ids(Stored(rooms, heap, r).users)

\* =============================================================== C1
\* C1: after any sequence of joins and leaves, every room stored in the
\* registry has at most maxUsers = 2 users.
C1_AtMostTwoUsers ==
    \A r \in RoomIds :
        rooms[r] # NoRoom =>
            Cardinality(Stored(rooms, heap, r).users) <= maxUsers

\* a third user id has just sent join to a room that holds two users
C1_Witness ==
    /\ last.op = "join"
    /\ FullWithout(last.roomId, last.userId)
    /\ Of(emitted, "joined") = {}

\* =============================================================== C2
\* C2: a join to a room that holds 2 users, with a user id that is not one
\* of them, emits `full` to the joining connection, emits neither `joined`
\* nor `ready`, and leaves the room's membership and the registry unchanged.
C2_FullIsSignalled ==
    [][ (last'.op = "join" /\ FullWithout(last'.roomId, last'.userId)) =>
          /\ \E i \in Of(emitted', "full") : last'.sock \in emitted'[i].rcpts
          /\ Of(emitted', "joined") = {}
          /\ Of(emitted', "ready") = {}
          /\ rooms' = rooms
          /\ Stored(rooms', heap', last'.roomId).users
               = Stored(rooms, heap, last'.roomId).users ]_vars

\* =============================================================== C3
\* C3: when a join brings a room from 1 member to 2, every other connection
\* in the room receives `ready` exactly once for that join and the joining
\* connection receives no `ready`.
C3_ReadyToOthersOnce ==
    [][ ( /\ last'.op = "join"
          /\ rooms[last'.roomId] # NoRoom
          /\ Cardinality(Stored(rooms, heap, last'.roomId).users) = 1
          /\ rooms'[last'.roomId] # NoRoom
          /\ Cardinality(Stored(rooms', heap', last'.roomId).users) = 2 ) =>
          /\ \A m \in Stored(rooms', heap', last'.roomId).users :
                (m.socketId # last'.sock /\ m.socketId \in connected') =>
                    Cardinality({i \in Of(emitted', "ready") :
                                    m.socketId \in emitted'[i].rcpts}) = 1
          /\ \A i \in Of(emitted', "ready") :
                last'.sock \notin emitted'[i].rcpts ]_vars

\* a second user has just joined a room of one and `ready` reached a connection
C3_Witness ==
    /\ last.op = "join"
    /\ Logged(emitted, "Rejoin") = {}
    /\ Cardinality(Stored(rooms, heap, last.roomId).users) = 2
    /\ \E i \in Of(emitted, "ready") : emitted[i].rcpts # {}

\* =============================================================== C4
\* C4: an offer, answer or candidate sent by a member A of room R is
\* delivered to the connection of every other current member of R and is
\* never delivered back to A's own connection.
C4_RelayToOtherMembers ==
    [][ \A r \in RoomIds :
          ( /\ last'.op \in {"offer", "answer", "candidate"}
            /\ MemberSession(last'.sock, r) ) =>
              \E i \in Of(emitted', last'.op) :
                  /\ last'.sock \notin emitted'[i].rcpts
                  /\ \A m \in Stored(rooms, heap, r).users :
                        ( /\ m.id # user[last'.sock].id
                          /\ m.socketId # last'.sock
                          /\ m.socketId \in connected ) =>
                            m.socketId \in emitted'[i].rcpts ]_vars

\* =============================================================== C5
\* C5: a join carrying the user id of an existing member, sent from another
\* connection, is admitted and leaves the room with as many members as
\* before: one entry for that user id, bound to the new connection; and no
\* room ever holds two entries for one user id.
C5_RejoinStep ==
    ( /\ last'.op = "join"
      /\ rooms[last'.roomId] # NoRoom
      /\ \E e \in Stored(rooms, heap, last'.roomId).users :
            e.id = last'.userId /\ e.socketId # last'.sock ) =>
        /\ rooms' = rooms
        /\ \E i \in Of(emitted', "joined") :
              emitted'[i].rcpts = {last'.sock}
        /\ Cardinality(Stored(rooms', heap', last'.roomId).users)
             = Cardinality(Stored(rooms, heap, last'.roomId).users)
        /\ {e \in Stored(rooms', heap', last'.roomId).users :
              e.id = last'.userId}
             = {NewUser(last'.userId, last'.sock)}

C5_OneEntryPerUser ==
    \A i \in Instances :
        \A a, b \in heap[i].users : a.id = b.id => a = b

C5_RejoinKeepsOneEntry == []C5_OneEntryPerUser /\ [][C5_RejoinStep]_vars

\* a member of a room of two has just rejoined from a connection that had
\* never joined that room
C5_Witness ==
    /\ last.op = "join"
    /\ \E i \in Logged(emitted, "Rejoin") : last.sock \notin emitted[i].rcpts
    /\ Of(emitted, "joined") # {}
    /\ Cardinality(Stored(rooms, heap, last.roomId).users) = 2

\* =============================================================== C6
\* C6: when the last member of a room leaves by an explicit leave, the room
\* is removed from the registry in that same operation; the next join to
\* the same room id creates a new room whose creator is that joiner and
\* whose `joined` reply carries isCreator = true.
C6_LastLeaveRemovesRoom ==
    [][ /\ \A r \in RoomIds :
              ( /\ last'.op = "leave"
                /\ MemberSession(last'.sock, r)
                /\ Cardinality(Stored(rooms, heap, r).users) = 1 ) =>
                  rooms'[r] = NoRoom
        /\ ( /\ last'.op = "join"
             /\ rooms[last'.roomId] = NoRoom ) =>
               /\ rooms'[last'.roomId] # NoRoom
               /\ Stored(rooms', heap', last'.roomId).creator = last'.userId
               /\ \E i \in Of(emitted', "joined") :
                     /\ emitted'[i].rcpts = {last'.sock}
                     /\ emitted'[i].isCreator ]_vars

\* =============================================================== C7
\* C7: a transport disconnect of a connection bound to a room runs the
\* cleanup of an explicit leave: its user is removed from the room, the
\* remaining members receive `leave`, and the room is removed from the
\* registry if it became empty; so no room keeps a member whose connection
\* has disconnected.
C7_DisconnectStep ==
    \A r \in RoomIds :
        ( /\ last'.op = "disconnect"
          /\ MemberSession(last'.sock, r) ) =>
            /\ rooms'[r] # NoRoom =>
                  user[last'.sock] \notin Stored(rooms', heap', r).users
            /\ Cardinality(Stored(rooms, heap, r).users) = 1 =>
                  rooms'[r] = NoRoom
            /\ \A m \in Stored(rooms, heap, r).users :
                  (m.socketId # last'.sock /\ m.socketId \in connected') =>
                      \E i \in Of(emitted', "leave") :
                          m.socketId \in emitted'[i].rcpts

C7_NoMemberOfClosedConnection ==
    \A r \in RoomIds :
        rooms[r] # NoRoom =>
            \A m \in Stored(rooms, heap, r).users : m.socketId \in connected

C7_DisconnectCleansUp ==
    []C7_NoMemberOfClosedConnection /\ [][C7_DisconnectStep]_vars

\* =============================================================== C8
\* C8: when two different users send join for a room id that has no room in
\* the registry, in either processing order, exactly one Room is stored for
\* that id, both users end up members of it, and exactly one of them (the
\* first admitted) receives `joined` with isCreator = true.
C8_RacingJoins ==
    [][ ( /\ last.op = "join"
          /\ Logged(emitted, "Room created") # {}
          /\ last'.op = "join"
          /\ last'.roomId = last.roomId
          /\ last'.userId # last.userId ) =>
          /\ rooms[last.roomId] # NoRoom
          /\ rooms' = rooms
          /\ rooms'[last.roomId] # NoRoom
          /\ Ids(Stored(rooms', heap', last.roomId).users)
               = {last.userId, last'.userId}
          /\ \E i \in Of(emitted, "joined") :
                emitted[i].rcpts = {last.sock} /\ emitted[i].isCreator
          /\ \A i \in Of(emitted', "joined") :
                emitted'[i].rcpts = {last'.sock} /\ ~emitted'[i].isCreator
          /\ Of(emitted', "joined") # {} ]_vars

\* the only two joins of the run went to one room, which now holds both users
C8_Witness ==
    /\ last.op = "join"
    /\ env.joins = 2
    /\ Logged(emitted, "Room created") = {}
    /\ Cardinality(Stored(rooms, heap, last.roomId).users) = 2
    /\ \E i \in Of(emitted, "joined") : ~emitted[i].isCreator

\* =============================================================== C9
\* C9: when one of the two members of a room sends leave, the other member
\* receives a `leave` event carrying the departing user's identity, the
\* leaver receives none, and the room stays in the registry with exactly
\* the other member.
C9_LeaveNotifiesOther ==
    [][ \A r \in RoomIds :
          ( /\ last'.op = "leave"
            /\ MemberSession(last'.sock, r)
            /\ Cardinality(Stored(rooms, heap, r).users) = 2 ) =>
              /\ rooms'[r] = rooms[r]
              /\ Stored(rooms', heap', r).users
                   = Stored(rooms, heap, r).users \ {user[last'.sock]}
              /\ \E i \in Of(emitted', "leave") :
                    /\ emitted'[i].from = user[last'.sock].id
                    /\ last'.sock \notin emitted'[i].rcpts
                    /\ \A m \in Stored(rooms, heap, r).users :
                          ( /\ m.socketId # last'.sock
                            /\ m.socketId \in connected ) =>
                              m.socketId \in emitted'[i].rcpts ]_vars

\* =============================================================== C10
\* C10: a join rejected for capacity mutates no state: the rejected
\* session's room and user binding are the same as before the join, so a
\* later offer, answer, candidate or leave from that session delivers
\* nothing to the members of the full room and changes nothing in it.
C10_RejectedJoinStep ==
    ( /\ last'.op = "join"
      /\ FullWithout(last'.roomId, last'.userId) ) =>
        /\ room'[last'.sock] = room[last'.sock]
        /\ user'[last'.sock] = user[last'.sock]
        /\ rooms' = rooms
        /\ heap' = heap
        /\ sockRooms' = sockRooms

\* the step after a rejected join, taken by the rejected session, which is
\* not the session of a member of the full room
C10_StepAfterRejection ==
    ( /\ last.op = "join"
      /\ FullWithout(last.roomId, last.userId)
      /\ ~ MemberSession(last.sock, last.roomId)
      /\ last'.sock = last.sock
      /\ last'.op \in {"offer", "answer", "candidate", "leave"} ) =>
        /\ rooms' = rooms
        /\ Stored(rooms', heap', last.roomId) = Stored(rooms, heap, last.roomId)
        /\ \A i \in Of(emitted', last'.op) :
              \A m \in Stored(rooms, heap, last.roomId).users :
                  m.socketId \notin emitted'[i].rcpts

C10_RejectedJoinMutatesNothing ==
    [][C10_RejectedJoinStep /\ C10_StepAfterRejection]_vars

\* =============================================================== C11
\* C11: an offer, answer or candidate received on a session that has
\* completed no successful join is rejected: the handler completes, nothing
\* is forwarded to any connection, and no room or registry entry changes.
C11_UnboundRelayRejected ==
    [][ ( /\ last'.op \in {"offer", "answer", "candidate"}
          /\ user[last'.sock] = NoUser ) =>
          /\ ~crashed'
          /\ \A i \in Of(emitted', last'.op) : emitted'[i].rcpts = {}
          /\ rooms' = rooms
          /\ heap' = heap ]_vars

\* =============================================================== C12
\* C12: a leave received on a session with no room bound is a no-op: it
\* completes without an error, emits nothing, and changes no room and no
\* registry entry.
C12_UnboundLeaveNoOp ==
    [][ ( /\ last'.op = "leave"
          /\ room[last'.sock] = NoRoom ) =>
          /\ ~crashed'
          /\ emitted' = <<>>
          /\ rooms' = rooms
          /\ heap' = heap ]_vars

\* =============================================================== C13
\* C13: leave is idempotent: a leave on a session that has already left
\* changes no room's membership and removes no registry entry, also when
\* another user has meanwhile joined the same room id and a new room was
\* created under it.
C13_LeaveIdempotent ==
    [][ ( /\ last'.op = "leave"
          /\ last'.sock \in env.left ) =>
          \A r \in RoomIds :
              rooms[r] # NoRoom =>
                  /\ rooms'[r] = rooms[r]
                  /\ Stored(rooms', heap', r).users
                       = Stored(rooms, heap, r).users ]_vars

\* =============================================================== C14
\* C14: after every completed join or leave, no room with zero users is
\* stored in the registry.
C14_NoEmptyRoomStored ==
    \A r \in RoomIds :
        rooms[r] # NoRoom => Stored(rooms, heap, r).users # {}

\* a leave has just emptied the room it was stored under and removed it
C14_Witness ==
    /\ last.op = "leave"
    /\ Logged(emitted, "Empty room") # {}
    /\ \E s \in connected :
          /\ s = last.sock
          /\ room[s] # NoRoom
          /\ rooms[heap[room[s]].id] = NoRoom
          /\ heap[room[s]].users = {}

\* =============================================================== C15
\* C15: a user id is a member of at most one room at any time, also after a
\* join to a second room id on a session already bound to a first room: no
\* user id appears in the users of two stored rooms.
C15_UserInOneRoom ==
    \A r1, r2 \in RoomIds :
        (r1 # r2 /\ rooms[r1] # NoRoom /\ rooms[r2] # NoRoom) =>
            Ids(Stored(rooms, heap, r1).users)
              \cap Ids(Stored(rooms, heap, r2).users) = {}

\* =============================================================== C16
\* C16: `joined` is emitted only to the joining connection, its isCreator
\* flag is true exactly when the joining user id is the creator id recorded
\* when the room was created, and the creator id of a room never changes
\* while the room is stored, whoever joins, rejoins or leaves.
C16_CreatorFixed ==
    [][ /\ \A i \in Of(emitted', "joined") :
              /\ last'.op = "join"
              /\ emitted'[i].rcpts = {last'.sock}
              /\ rooms'[last'.roomId] # NoRoom
              /\ emitted'[i].isCreator
                   = ( last'.userId
                         = IF rooms[last'.roomId] # NoRoom
                           THEN Stored(rooms, heap, last'.roomId).creator
                           ELSE last'.userId )
              /\ Stored(rooms', heap', last'.roomId).creator
                   = IF rooms[last'.roomId] # NoRoom
                     THEN Stored(rooms, heap, last'.roomId).creator
                     ELSE last'.userId
        /\ \A r \in RoomIds :
              (rooms[r] # NoRoom /\ rooms'[r] # NoRoom) =>
                  /\ rooms'[r] = rooms[r]
                  /\ Stored(rooms', heap', r).creator
                       = Stored(rooms, heap, r).creator ]_vars

\* the creator has just rejoined its room, which holds another user, and is
\* told it is the creator
C16_Witness ==
    /\ last.op = "join"
    /\ Logged(emitted, "Rejoin") # {}
    /\ Cardinality(Stored(rooms, heap, last.roomId).users) = 2
    /\ \E i \in Of(emitted, "joined") :
          emitted[i].rcpts = {last.sock} /\ emitted[i].isCreator

\* =============================================================== C17
\* C17: the `joined` reply carries the current connectivity-server config
\* whenever the join asked for it or brought the room to capacity, and
\* null otherwise.
C17_ConfigInJoined ==
    [][ \A i \in Of(emitted', "joined") :
          emitted'[i].config
            = IF \/ last'.config
                 \/ Cardinality(Stored(rooms', heap', last'.roomId).users)
                      = maxUsers
              THEN iceServers
              ELSE "null" ]_vars

\* ============================================ properties of the browsers
\* browser c is a participant: its open connection is the one an entry of
\* a stored room is bound to
Participant(c) ==
    /\ client[c].sock # 0
    /\ \E r \in RoomIds :
          /\ rooms[r] # NoRoom
          /\ \E u \in Stored(rooms, heap, r).users :
                u.socketId = client[c].sock

\* this step is browser c handling the event at the head of down[c]
Received(c, ev) ==
    /\ down[c] # <<>>
    /\ Head(down[c]).ev = ev
    /\ down'[c] = Tail(down[c])
    /\ client'[c].sock = client[c].sock

\* =============================================================== C18
\* C18: the two participants of a room never offer simultaneously: in no
\* reachable state have both members of a room emitted an offer that is
\* not yet answered.
C18_NoSimultaneousOffers ==
    \A r \in RoomIds : \A a, b \in Clients :
        ( /\ a # b
          /\ rooms[r] # NoRoom
          /\ client[a].sock # 0
          /\ client[b].sock # 0
          /\ {client[a].sock, client[b].sock}
               \subseteq {u.socketId : u \in Stored(rooms, heap, r).users} ) =>
            ~ (client[a].haveLocalOffer /\ client[b].haveLocalOffer)

\* =============================================================== C19
\* C19: on a transport reconnect while a call is active (the browser is
\* in a call and has handled `joined`, so its transport was open before)
\* the browser emits exactly one join, with the user id and the room id of
\* the join that started the call and with wantsConfig true; with no
\* active call it emits no join.
C19_RejoinSameIdentity ==
    [][ \A c \in Clients :
          (client[c].sock = 0 /\ client'[c].sock # 0) =>
              /\ (client[c].inCall /\ client[c].joined) =>
                    up'[c] = Append(up[c],
                                    UpMsg("join", client[c].call.roomId,
                                          client[c].call.userId, TRUE,
                                          "none"))
              /\ ~client[c].inCall => up'[c] = up[c] ]_callvars
\* =============================================================== C20
\* C20: within one room each participant observes the protocol order: it
\* has handled `joined` for its own join before it handles any offer,
\* answer or candidate; it handles an answer only after it emitted an
\* offer; and it handles a candidate of the peer only after it handled the
\* peer's offer or answer.
C20_ProtocolOrder ==
    [][ \A c \in Clients :
          Participant(c) =>
              /\ ( \/ Received(c, "offer")
                   \/ Received(c, "answer")
                   \/ Received(c, "candidate") ) => client[c].joined
              /\ Received(c, "answer") => client[c].offered
              /\ Received(c, "candidate") => client[c].heard ]_callvars
\* =============================================================== C21
\* C21: when connectivity degrades, the participant that answered the
\* current negotiation round (its connection holds the peer's offer as
\* remote description) attempts no recovery: it neither calls the
\* in-place restart nor queues an offer.
C21_AnswererNeverRecovers ==
    [][ env'.failures # env.failures =>
          \A c \in Clients :
             client[c].remote = "offer" =>
                /\ client'[c].restarted = client[c].restarted
                /\ client'[c].pending = client[c].pending ]_callvars
\* =============================================================== C22
\* what browser c sends to its room is relayed to browser d: both
\* transports are open, c's is bound to a room and d's is in it
SameRoom(c, d) ==
    /\ c # d
    /\ client[c].sock # 0
    /\ client[d].sock # 0
    /\ ~Unbound(client[c].sock)
    /\ client[d].sock \in SocketTo(sockRooms, client[c].sock,
                                   heap[room[client[c].sock]].id)

\* C22: after a connectivity failure in an established call, seen by the
\* side that offered (its connection holds the peer's answer; it has not
\* emitted an offer since the failure), a new offer is eventually relayed
\* to the peer, unless a transport closes or the relay stops meanwhile.
C22_FailureLeadsToNewOffer ==
    \A c \in Clients : \A d \in Clients \ {c} :
        (client[c].failed /\ client[c].remote = "answer" /\ SameRoom(c, d))
          ~> (\/ \E i \in DOMAIN down[d] : down[d][i].ev = "offer"
              \/ ~SameRoom(c, d)
              \/ crashed)
\* =============================================================== C23
\* the first occupant a and the second occupant b of room r: a's user
\* created the room, and both are in it through their open transports
Occupants(a, b, r) ==
    /\ a # b
    /\ rooms[r] # NoRoom
    /\ client[a].sock # 0
    /\ client[b].sock # 0
    /\ \E u, v \in Stored(rooms, heap, r).users :
          /\ u.socketId = client[a].sock
          /\ u.id = Stored(rooms, heap, r).creator
          /\ v.socketId = client[b].sock

\* C23: when two users have joined the same empty room one after the
\* other (every join of these runs requests config) and neither leaves nor
\* disconnects, the first occupant eventually emits an offer, the second
\* an answer, and the first applies the answer as its remote description.
C23_CallIsEstablished ==
    \A a, b \in Clients : \A r \in RoomIds :
        Occupants(a, b, r)
          ~> (\/ ~Occupants(a, b, r)
              \/ crashed
              \/ /\ client[a].offered
                 /\ client[b].sentSdp
                 /\ client[a].remote = "answer")
\* =============================================================== C24
\* the connection peerConnection.current refers to was just constructed:
\* it has no description, no candidate, no restart and no failure yet
FreshHandle(cl) ==
    /\ cl.peerConnection
    /\ ~cl.gathering
    /\ ~cl.haveLocalOffer
    /\ cl.remote = "none"
    /\ ~cl.restarted
    /\ ~cl.failed
    /\ cl.applied = 0

\* C24: a client that has received `joined` (and holds the ICE servers)
\* and then handles `ready` has constructed a fresh peer connection, any
\* connection it held being destroyed, and has exactly one offer under
\* way; a client that has not received `joined` since its last hang-up
\* does nothing on `ready`.
C24_ReadyStartsFreshOffer ==
    [][ \A c \in Clients :
          Received(c, "ready") =>
             /\ (client[c].joined /\ client[c].iceServers) =>
                    /\ FreshHandle(client'[c])
                    /\ client'[c].live = 1
                    /\ client'[c].pending = <<"offer">>
             /\ ~client[c].joined => client'[c] = client[c] ]_callvars
\* =============================================================== C25
\* C25: a client that handles an offer has closed any peer connection it
\* held and constructed a fresh one, has set the offer as its remote
\* description, and has exactly one answer under way for it; and an
\* answer is emitted only as the first description of a connection that
\* holds an offer, so at most once for an offer.
C25_OfferStep ==
    \A c \in Clients :
       Received(c, "offer") =>
          /\ client'[c].peerConnection
          /\ client'[c].live = 1
          /\ ~client'[c].gathering
          /\ ~client'[c].restarted
          /\ client'[c].applied = 0
          /\ client'[c].remote = "offer"
          /\ client'[c].pending = <<"answer">>

C25_AnswerStep ==
    \A c \in Clients :
       (/\ client[c].pending # <<>>
        /\ Head(client[c].pending) = "answer"
        /\ client'[c].pending = Tail(client[c].pending)) =>
          /\ client[c].remote = "offer"
          /\ ~client[c].gathering
          /\ up'[c] = Append(up[c], UpMsg("answer", 0, 0, FALSE, "sdp"))

C26_OneLiveHandle ==
    \A c \in Clients :
       /\ client[c].live <= 1
       /\ client[c].live = 1 <=> client[c].peerConnection
       /\ client[c].sentSdp => client[c].live = 1

\* a client that emitted an answer on one connection and has replaced it
\* by another since
C26_Witness ==
    \E c \in Clients :
       /\ client[c].sentSdp
       /\ client[c].peerConnection
       /\ ~client[c].gathering
       /\ client[c].live = 1
\* =============================================================== C27
\* this step is a click of browser c that sends no join: a hang-up
HungUp(c) ==
    /\ env'.clicks # env.clicks
    /\ client'[c] # client[c] \/ up'[c] # up[c]
    /\ ~ /\ Len(up'[c]) > Len(up[c])
          /\ up'[c][Len(up'[c])].op = "join"

\* C27: an explicit hang-up, in whatever state the client is, closes and
\* discards the peer connection, clears the remote media, marks the client
\* as not joined and not in a call, and emits exactly one leave.
C27_HangUpTearsDown ==
    [][ \A c \in Clients :
          HungUp(c) =>
             /\ ~client'[c].peerConnection
             /\ client'[c].live = 0
             /\ ~client'[c].remoteVideo
             /\ ~client'[c].remoteUser
             /\ ~client'[c].joined
             /\ ~client'[c].inCall
             /\ up'[c] = Append(up[c], UpMsg("leave", 0, 0, FALSE, "none"))
      ]_callvars

\* a client of an established call has hung up: its leave is on its way,
\* and the peer still holds the connection of that call
C27_Witness ==
    \E c, d \in Clients :
       /\ c # d
       /\ ~client[c].inCall
       /\ ~client[c].peerConnection
       /\ up[c] # <<>>
       /\ up[c][Len(up[c])].op = "leave"
       /\ client[c].iceServers
       /\ client[d].peerConnection
       /\ client[d].remote = "answer"
\* =============================================================== C28
\* C28: a candidate handled while the client holds no peer connection is
\* ignored: the client's state does not change (and nothing is thrown);
\* with a connection, the candidate is added to it whatever its state.
C28_CandidateBestEffort ==
    [][ \A c \in Clients :
          Received(c, "candidate") =>
             client'[c] = IF client[c].peerConnection
                          THEN [client[c] EXCEPT !.applied = @ + 1]
                          ELSE client[c] ]_callvars

\* a candidate is about to be handled by a client without a connection
C28_Witness ==
    \E c \in Clients :
       /\ down[c] # <<>>
       /\ Head(down[c]).ev = "candidate"
       /\ ~client[c].peerConnection
\* =============================================================== C29
\* browser c is a member of room r through the transport it has now
MemberNow(c, r) ==
    /\ client[c].sock # 0
    /\ rooms[r] # NoRoom
    /\ \E u \in Stored(rooms, heap, r).users : u.socketId = client[c].sock

\* browser c is in an established call in room r (its join of r was
\* acknowledged and its connection holds both descriptions), the room
\* holds the user of that join with a transport that is closed, and c
\* has a new transport
Reconnected(c, r) ==
    /\ client[c].inCall
    /\ client[c].joined
    /\ client[c].call.roomId = r
    /\ client[c].gathering
    /\ client[c].remote # "none"
    /\ client[c].sock # 0
    /\ rooms[r] # NoRoom
    /\ \E u \in Stored(rooms, heap, r).users :
          /\ u.id = client[c].call.userId
          /\ u.socketId # client[c].sock
          /\ u.socketId \notin connected

\* C29: after a transport reconnect of a participant of an established
\* call, that user is eventually a member of the same room through the
\* new connection, unless that connection closes too or the relay stops.
C29_ReconnectRejoinsRoom ==
    \A c \in Clients : \A r \in RoomIds :
        Reconnected(c, r)
          ~> (MemberNow(c, r) \/ client[c].sock = 0 \/ crashed)
\* =============================================================== C30
\* C30: a failure of the credential fetch does not stop the relay: after
\* the fetch has failed the server process is still running (and so goes
\* on serving join, offer, answer, candidate and leave).
C30_FetchFailureKeepsServing ==
    [][last'.op = "fetch failed" => ~crashed']_vars
\* =============================================================== C31
\* C31: a client whose `joined` reply carried no connectivity-server
\* config (it has handled `joined` and holds no ICE servers) still
\* negotiates: handling `ready` it has a peer connection and an offer
\* under way, and handling an offer it has a peer connection and an
\* answer under way.
C31_NegotiatesWithoutConfig ==
    [][ \A c \in Clients :
          (client[c].joined /\ ~client[c].iceServers) =>
             /\ Received(c, "ready") =>
                   /\ client'[c].peerConnection
                   /\ client'[c].pending = <<"offer">>
             /\ Received(c, "offer") =>
                   /\ client'[c].peerConnection
                   /\ client'[c].pending = <<"answer">> ]_callvars
\* =============================================================== C32
\* C32: a join that requests config and is handled while the credential
\* fetch is pending is handled like any other join, at once and without
\* completing the fetch: it is rejected exactly when the room is full
\* without that user, it is admitted otherwise with one `joined` to the
\* joining connection, and that reply carries no server list.
C32_JoinDoesNotWaitForFetch ==
    [][ ( /\ last'.op = "join"
          /\ last'.config
          /\ iceServers = "undefined" ) =>
          /\ ~crashed'
          /\ iceServers' = "undefined"
          /\ Of(emitted', "joined") = {}
               <=> FullWithout(last'.roomId, last'.userId)
          /\ Cardinality(Of(emitted', "joined")) <= 1
          /\ \A i \in Of(emitted', "joined") :
                /\ emitted'[i].rcpts = {last'.sock}
                /\ emitted'[i].config \in {"undefined", "null"} ]_vars

\* with the fetch pending, a second user has just joined a room asking for
\* config: it got `joined` without a server list, and the first user `ready`
C32_Witness ==
    /\ iceServers = "undefined"
    /\ last.op = "join"
    /\ last.config
    /\ \E i \in Of(emitted, "joined") :
          /\ emitted[i].rcpts = {last.sock}
          /\ emitted[i].config = "undefined"
    /\ \E i \in Of(emitted, "ready") : emitted[i].rcpts # {}
\* =============================================================== C33
\* C33: every offer, answer and candidate the relay forwards to some
\* connection is tagged with the user of the sending session and carries
\* the payload the sender emitted.
C33_RelayTagsSender ==
    [][ last'.op \in {"offer", "answer", "candidate"} =>
          \A i \in Of(emitted', last'.op) :
              emitted'[i].rcpts # {} =>
                 /\ emitted'[i].from = user[last'.sock].id
                 /\ emitted'[i].data = last'.data ]_vars
\* =============================================================== C34
\* C34: `ready`, `leave` and relayed offers, answers and candidates of a
\* room reach only connections of current members of that room (before
\* or after the step the room holds an entry bound to the connection, or
\* an entry of the user the connection's session is bound to): a
\* connection that has left the room gets none of them.
C34_OnlyMembersReceive ==
    [][ \A i \in DOMAIN emitted' :
          emitted'[i].ev \in {"ready", "leave", "offer", "answer", "candidate"}
            => \A s \in emitted'[i].rcpts :
                  \E u \in heap[room'[last'.sock]].users
                             \cup heap'[room'[last'.sock]].users :
                     u.socketId = s \/ u.id = user'[s].id ]_vars
\* =============================================================== C35
\* C35: a client that is not in a call (it has hung up and not clicked
\* Join since) and that no late `joined` has marked as joined again holds
\* no peer connection and has no offer or answer under way, whatever it
\* has received since: without a connection and without a createOffer()
\* / createAnswer() to settle it emits no offer, answer or candidate.
C35_QuietAfterHangUp ==
    \A c \in Clients :
       (~client[c].inCall /\ ~client[c].joined) =>
          /\ ~client[c].peerConnection
          /\ client[c].live = 0
          /\ client[c].pending = <<>>
C37_PopulatedRoomIsStored ==
    \A i \in Instances :
        heap[i].users # {} => rooms[heap[i].id] = i
\* =============================================================== C38
\* C38: when a room stored in the registry holds an entry of a user bound
\* to a new connection, a leave handled on the old connection of that user
\* (its session is still bound to that room and that user id) keeps that
\* entry in the room and the room in the registry.
C38_StaleLeaveKeepsNewEntry ==
    [][ \A r \in RoomIds :
          ( /\ last'.op = "leave"
            /\ rooms[r] # NoRoom
            /\ room[last'.sock] = rooms[r] ) =>
              \A e \in Stored(rooms, heap, r).users :
                  (e.id = user[last'.sock].id /\ e.socketId # last'.sock) =>
                      /\ rooms'[r] = rooms[r]
                      /\ e \in Stored(rooms', heap', r).users ]_vars
====
